---- MODULE Spec2Model ----
(***************************************************************************)
(* OpenQuest RAG engine: the retriever (vectorSearch +                      *)
(* rerankByFileProximity) and the POST /rag/pipeline SSE stream.            *)
(*                                                                         *)
(* Scores are kept in hundredths (0.30 -> 30, 0.08 -> 8, 0.16 -> 16); the  *)
(* sums the reranker forms (x + 0.08, 0.08 + 0.08) are the same in both.   *)
(***************************************************************************)
EXTENDS Integers, Sequences, FiniteSets, TLC

\* ---------------------------------------------------------------- bounds
MaxRows == 5        \* rows of code_chunks stored for the repository
MaxTopK == 2        \* largest explicit topK a caller passes
PipeRows == 1       \* rows of code_chunks in a pipeline run
MaxFrags == 2       \* data lines the LLM stream carries
MaxRead == 3        \* largest number of characters one reader.read() returns
MaxChunks == 201    \* longest chunk list handed to embedChunks
MaxWrites == 3      \* writeToVectorStore calls made for the repository
MaxEnqueues == 4    \* enqueueIndex calls made
MaxFiles == 2       \* longest file list handed to filterFiles
MaxCandidates == 4  \* longest list handed to rerankByFileProximity in any order
MaxRanked == 5      \* longest list vectorSearch hands to rerankByFileProximity
MaxRankTopK == 5    \* largest topK handed to rerankByFileProximity
MaxEvents == 2      \* events of one pipeline response read by the browser client
MaxRuns == 2        \* runPipeline calls made in the browser client

\* ------------------------------------------------------ program constants
DEFAULT_TOP_K == 8
DEFAULT_CANDIDATE_MULTIPLIER == 3
DEFAULT_MIN_SCORE == 30
PROXIMITY_BOOST == 8
MAX_PROXIMITY_BOOST_PER_FILE == 16
PIPELINE_MIN_SCORE == 30
PIPELINE_DEFAULT_TOP_K == 8
PIPELINE_MULTIPLIER == 3
MAX_ANCHORS == 3

\* ------------------------------------------------------------ input sets
Files == {"a.ts", "b.ts"}
Scores == {25, 30, 35}
\* an option left out of the call is <<>>, one that is given is <<value>>
Undefined == <<>>
Given(S) == {<<x>> : x \in S}

Min(a, b) == IF a < b THEN a ELSE b

\* `x ?? d`
Coalesce(x, d) == IF x = Undefined THEN d ELSE x[1]

\* RawCandidate rows: id is the row's position in the table
RowsOf(n) == [1..n -> [filePath : Files, vectorScore : Scores]]

WithIds(t) ==
    [i \in 1..Len(t) |->
        [id |-> i, filePath |-> t[i].filePath, language |-> "typescript",
         content |-> <<"content", i>>, startLine |-> i, endLine |-> i + 1,
         symbolName |-> IF i % 2 = 0 THEN Undefined ELSE <<"symbol", i>>,
         vectorScore |-> t[i].vectorScore]]

\* the table holds at most maxRows rows
StoreInit(table, maxRows) ==
    \E n \in 0..maxRows : \E t \in RowsOf(n) : table = WithIds(t)

\* -------------------------------------------------------- embedding models
GEMINI_EMBEDDING_MODEL == "gemini-embedding-001"
XENOVA_MODEL == "Xenova/all-MiniLM-L6-v2"
OLDER_MODEL == "text-embedding-004"
GEMINI_EMBEDDING_DIM == 768
GEMINI_BATCH_SIZE == 100
TASK_TYPE_DOCUMENT == "RETRIEVAL_DOCUMENT"
TASK_TYPE_QUERY == "RETRIEVAL_QUERY"
XENOVA_DIM == 384

GeminiSpace == [model |-> GEMINI_EMBEDDING_MODEL, dim |-> GEMINI_EMBEDDING_DIM]
XenovaSpace == [model |-> XENOVA_MODEL, dim |-> XENOVA_DIM]
OlderSpace == [model |-> OLDER_MODEL, dim |-> GEMINI_EMBEDDING_DIM]

\* the spaces an index of the repository may have been built in
IndexSpaces == {GeminiSpace, XenovaSpace, OlderSpace}

\* embedQuery: the remote model with an API key, the local fallback without
embedQuerySpace(key) == IF key THEN GeminiSpace ELSE XenovaSpace

\* `embedding <=> $1::vector` on vectors of different dimensions is an error
\* of the database: the query throws
\* the requests embedQuery sends to the remote service: one embedContent
\* request with a key, none with the local fallback
embedQueryRequestsAsDocument(key) ==
    IF key
    THEN <<[model |-> GEMINI_EMBEDDING_MODEL, taskType |-> TASK_TYPE_DOCUMENT,
            outputDimensionality |-> GEMINI_EMBEDDING_DIM]>>
    ELSE <<>>

embedQueryRequests(key) ==
    IF key
    THEN <<[model |-> GEMINI_EMBEDDING_MODEL, taskType |-> TASK_TYPE_QUERY,
            outputDimensionality |-> GEMINI_EMBEDDING_DIM]>>
    ELSE <<>>

DimensionError(queryDim, storedDim) == queryDim # storedDim

\* ------------------------------------------------------------ vectorSearch
RECURSIVE SelectRows(_, _)
SelectRows(s, minScore) ==
    IF s = <<>> THEN <<>>
    ELSE IF Head(s).vectorScore >= minScore
         THEN <<Head(s)>> \o SelectRows(Tail(s), minScore)
         ELSE SelectRows(Tail(s), minScore)

RECURSIVE InsertByVectorScore(_, _)
InsertByVectorScore(t, x) ==
    IF t = <<>> THEN <<x>>
    ELSE IF Head(t).vectorScore >= x.vectorScore
         THEN <<Head(t)>> \o InsertByVectorScore(Tail(t), x)
         ELSE <<x>> \o t

RECURSIVE OrderByDistance(_)
OrderByDistance(s) ==
    IF s = <<>> THEN <<>>
    ELSE InsertByVectorScore(OrderByDistance(SubSeq(s, 1, Len(s) - 1)), s[Len(s)])

Take(s, n) == SubSeq(s, 1, Min(n, Len(s)))

\* LIMIT with a negative count is an error of the database: the query throws
vectorSearchThrows(limit) == limit < 0

vectorSearchNoFilter(table, limit, minScore) ==
    Take(OrderByDistance(table), limit)

vectorSearch(table, limit, minScore) ==
    Take(OrderByDistance(SelectRows(table, minScore)), limit)

\* --------------------------------------------------- rerankByFileProximity
AnchorFilesOfAll(candidates) ==
    {candidates[i].filePath : i \in 1..Len(candidates)}

AnchorFiles(candidates) ==
    {candidates[i].filePath : i \in 1..Min(MAX_ANCHORS, Len(candidates))}

NoBoost == [f \in Files |-> 0]

BoostForNone(candidate, anchorFiles, boostApplied) == 0

BoostForAnyFile(candidate, anchorFiles, boostApplied) ==
    IF boostApplied[candidate.filePath] < MAX_PROXIMITY_BOOST_PER_FILE
    THEN Min(PROXIMITY_BOOST,
             MAX_PROXIMITY_BOOST_PER_FILE - boostApplied[candidate.filePath])
    ELSE 0

BoostForUncapped(candidate, anchorFiles, boostApplied) ==
    IF candidate.filePath \in anchorFiles THEN PROXIMITY_BOOST ELSE 0

BoostFor(candidate, anchorFiles, boostApplied) ==
    IF candidate.filePath \in anchorFiles
       /\ boostApplied[candidate.filePath] < MAX_PROXIMITY_BOOST_PER_FILE
    THEN Min(PROXIMITY_BOOST,
             MAX_PROXIMITY_BOOST_PER_FILE - boostApplied[candidate.filePath])
    ELSE 0

RECURSIVE ScoreFrom(_, _, _)
ScoreFrom(candidates, anchorFiles, boostApplied) ==
    IF candidates = <<>> THEN <<>>
    ELSE LET c == Head(candidates)
             b == BoostFor(c, anchorFiles, boostApplied)
         IN <<[id |-> c.id, filePath |-> c.filePath, language |-> c.language,
               content |-> c.content, startLine |-> c.startLine,
               endLine |-> c.endLine, symbolName |-> c.symbolName,
               vectorScore |-> c.vectorScore,
               proximityBoost |-> b,
               score |-> c.vectorScore + b]>>
            \o ScoreFrom(Tail(candidates), anchorFiles,
                         [boostApplied EXCEPT ![c.filePath] = @ + b])

Scored(candidates) == ScoreFrom(candidates, AnchorFiles(candidates), NoBoost)

RECURSIVE InsertByScoreBeforeEquals(_, _)
InsertByScoreBeforeEquals(t, x) ==
    IF t = <<>> THEN <<x>>
    ELSE IF Head(t).score > x.score
         THEN <<Head(t)>> \o InsertByScoreBeforeEquals(Tail(t), x)
         ELSE <<x>> \o t

RECURSIVE InsertByScore(_, _)
InsertByScore(t, x) ==
    IF t = <<>> THEN <<x>>
    ELSE IF Head(t).score >= x.score
         THEN <<Head(t)>> \o InsertByScore(Tail(t), x)
         ELSE <<x>> \o t

SortUnsorted(s) == s

RECURSIVE SortByScoreDesc(_)
SortByScoreDesc(s) ==
    IF s = <<>> THEN <<>>
    ELSE InsertByScore(SortByScoreDesc(SubSeq(s, 1, Len(s) - 1)), s[Len(s)])

Slice0All(s, n) == s

Slice0OneMore(s, n) == Take(s, n + 1)

\* Array.prototype.slice(0, n) for n >= 0 and for n < 0 (count from the end)
Slice0(s, n) ==
    IF n >= 0 THEN Take(s, n)
    ELSE IF Len(s) + n > 0 THEN SubSeq(s, 1, Len(s) + n) ELSE <<>>

rerankByFileProximity(candidates, topK) ==
    IF Len(candidates) = 0 THEN <<>>
    ELSE Slice0(SortByScoreDesc(Scored(candidates)), topK)

\* ------------------------------------------------------------------ state
VARIABLES
    store,       \* code_chunks rows of the repository, with the query's similarity
    indexModel,  \* model and dimension of the vectors stored for the repository
    options,     \* RetrievalOptions of the retrieve call
    rpc,         \* retrieve: "call" | "returned" | "failed"
    result,      \* RetrievalResult.chunks / totalCandidates
    body,        \* req.body of POST /rag/pipeline
    apiKey,      \* process.env.GEMINI_API_KEY is set
    pc,          \* where the pipeline handler is suspended
    httpStatus,  \* status line written (0: none yet)
    events,      \* the SSE events written with emit, in order
    upstream,    \* characters the LLM response body carries
    pos,         \* characters of upstream handed out by reader.read() so far
    buffer,      \* let buffer
    fullAnswer,  \* let fullAnswer
    aborted,     \* the caller has disconnected
    llmCalls,    \* fetch calls made to the LLM endpoint
    chunks,      \* embedChunks: the chunks argument
    embedPc,     \* embedChunks: where the call is suspended
    batchStart,  \* embedWithGemini / embedWithXenova: let i
    embedded,    \* embedWithGemini / embedWithXenova: const embedded
    embedResult, \* the EmbeddingResult the call resolved with
    embedError,  \* why the call rejected
    requests,    \* batch requests sent to the embedding service, in order
    pauses,      \* sleep(200) calls that have elapsed
    repoIndex,   \* writer: the repository index record
    codeChunks,  \* writer: the chunk rows stored for the repository
    writeCall,   \* writer: the write call holding the repository's lock
    writes,      \* writer: the write calls that have returned, in order
    jobs,        \* job runner: the jobs created, by jobId
    repoStatus,  \* job runner: status of each repository's index record
    enqueued,    \* job runner: what the last enqueueIndex call returned
    enqueues,    \* job runner: enqueueIndex calls made
    files,       \* filterFiles: the input list
    filterPc,    \* filterFiles: "call" | "returned"
    filterResult, \* filterFiles: { accepted, rejected }
    queryRequests, \* embedding requests embedQuery sent to the remote service
    rrCandidates, \* rerankByFileProximity: the candidates argument
    rrTopK,      \* rerankByFileProximity: the topK argument
    rrPc,        \* rerankByFileProximity: "call" | "returned"
    rrAnchors,   \* rerankByFileProximity: const anchorFiles
    rrScored,    \* rerankByFileProximity: const scored, before the sort
    rrReturned,  \* rerankByFileProximity: the array returned
    emitted,     \* client: the SSE events in the response body
    clientPc,    \* client: where runPipeline is suspended
    netPos,      \* client: units of the body handed out by reader.read()
    clientBuffer, \* client: let buffer
    handled,     \* client: the calls of handleEvent, in order
    streaming,   \* client: useState streaming
    answer,      \* client: useState answer
    clientError, \* client: useState error
    runs         \* client: calls of runPipeline

vars == <<store, indexModel, options, rpc, result, body, apiKey, pc, httpStatus,
          events, upstream, pos, buffer, fullAnswer, aborted, llmCalls,
          chunks, embedPc, batchStart, embedded, embedResult, embedError,
          requests, pauses, repoIndex, codeChunks, writeCall, writes,
          jobs, repoStatus, enqueued, enqueues, files, filterPc, filterResult,
          queryRequests, rrCandidates, rrTopK, rrPc, rrAnchors, rrScored,
          rrReturned, emitted, clientPc, netPos, clientBuffer, handled,
          streaming, answer, clientError, runs>>

retrieveVars == <<options, rpc, result>>
pipelineVars == <<body, apiKey, pc, httpStatus, events, upstream, pos, buffer,
                  fullAnswer, aborted, llmCalls>>
embedVars == <<chunks, embedPc, batchStart, embedded, embedResult, embedError,
               requests, pauses>>
writerVars == <<repoIndex, codeChunks, writeCall, writes>>
queueVars == <<jobs, repoStatus, enqueued, enqueues>>
filterVars == <<files, filterPc, filterResult>>
rankVars == <<rrCandidates, rrTopK, rrPc, rrAnchors, rrScored, rrReturned>>
clientVars == <<emitted, clientPc, netPos, clientBuffer, handled, streaming,
                answer, clientError, runs>>
laterVars == <<rankVars, clientVars>>
otherVars == <<indexModel, embedVars, writerVars, queueVars, filterVars,
               laterVars>>

\* no embedChunks call
NoEmbedding == [embedded |-> <<>>, model |-> "none"]

EmbedIdle ==
    /\ chunks = <<>>
    /\ embedPc = "idle"
    /\ batchStart = 0
    /\ embedded = <<>>
    /\ embedResult = NoEmbedding
    /\ embedError = "none"
    /\ requests = <<>>
    /\ pauses = 0

\* no index record, no row, no write call
NoIndex == [status |-> "none", commitHash |-> Undefined, model |-> "none"]
NoCall == [strategy |-> "none"]

WriterIdle ==
    /\ repoIndex = NoIndex
    /\ codeChunks = {}
    /\ writeCall = NoCall
    /\ writes = <<>>

NoJob == [repo |-> "", jobId |-> 0, created |-> FALSE]

QueueIdle ==
    /\ jobs = <<>>
    /\ repoStatus = <<>>
    /\ enqueued = NoJob
    /\ enqueues = 0

NoFilterResult == [accepted |-> <<>>, rejected |-> <<>>]

FilterIdle ==
    /\ files = <<>>
    /\ filterPc = "idle"
    /\ filterResult = NoFilterResult

RankIdle ==
    /\ rrCandidates = <<>>
    /\ rrTopK = 0
    /\ rrPc = "idle"
    /\ rrAnchors = {}
    /\ rrScored = <<>>
    /\ rrReturned = <<>>

ClientIdle ==
    /\ emitted = <<>>
    /\ clientPc = <<>>
    /\ netPos = <<>>
    /\ clientBuffer = <<>>
    /\ handled = <<>>
    /\ streaming = FALSE
    /\ answer = <<>>
    /\ clientError = Undefined
    /\ runs = 0

LaterIdle == RankIdle /\ ClientIdle /\ queryRequests = <<>>

RestIdle == EmbedIdle /\ WriterIdle /\ QueueIdle /\ FilterIdle /\ LaterIdle

\* ---------------------------------------------------------------- retrieve
TopKs == {Undefined} \cup Given(-1..MaxTopK)

\* the calls made: every topK with the other options left out, and one call
\* that sets all three
RetrievalOptions ==
    [topK : TopKs, candidateMultiplier : {Undefined}, minScore : {Undefined}]
    \cup [topK : Given({1}), candidateMultiplier : Given({1}),
          minScore : Given({35})]

NoResult == [chunks |-> <<>>, totalCandidates |-> 0]

OptTopK(o) == Coalesce(o.topK, DEFAULT_TOP_K)
OptCandidateCount(o) ==
    OptTopK(o) * Coalesce(o.candidateMultiplier, DEFAULT_CANDIDATE_MULTIPLIER)
OptMinScore(o) == Coalesce(o.minScore, DEFAULT_MIN_SCORE)

\* retrieve(): vectorSearch resolves, then rerank and return
RetrieveReturns ==
    /\ rpc = "call"
    /\ ~vectorSearchThrows(OptCandidateCount(options))
    /\ ~DimensionError(embedQuerySpace(apiKey).dim, indexModel.dim)
    /\ LET candidates == vectorSearch(store, OptCandidateCount(options),
                                      OptMinScore(options))
       IN result' = [chunks |-> rerankByFileProximity(candidates, OptTopK(options)),
                     totalCandidates |-> Len(candidates)]
    /\ rpc' = "returned"
    /\ UNCHANGED <<store, options>>
    /\ UNCHANGED pipelineVars
    /\ queryRequests' = queryRequests \o embedQueryRequests(apiKey)
    /\ UNCHANGED otherVars

\* retrieve(): embedQuery or vectorSearch rejects; the rejection propagates
RetrieveThrows ==
    /\ rpc = "call"
    /\ rpc' = "failed"
    /\ UNCHANGED <<store, options, result>>
    /\ UNCHANGED pipelineVars
    /\ queryRequests' = queryRequests \o embedQueryRequests(apiKey)
    /\ UNCHANGED otherVars

PipelineIdle ==
    /\ body = [repoId |-> "", query |-> "", topK |-> Undefined]
    /\ pc = "none"
    /\ httpStatus = 0
    /\ events = <<>>
    /\ upstream = <<>>
    /\ pos = 0
    /\ buffer = <<>>
    /\ fullAnswer = <<>>
    /\ aborted = FALSE
    /\ llmCalls = 0

\* retrieve against an index built in the space the query is embedded in
RetrieveInit ==
    /\ StoreInit(store, MaxRows)
    /\ indexModel = GeminiSpace
    /\ apiKey = TRUE
    /\ options \in RetrievalOptions
    /\ rpc = "call"
    /\ result = NoResult
    /\ PipelineIdle
    /\ RestIdle

RetrieveNext == RetrieveReturns \/ RetrieveThrows

RetrieveSpec == RetrieveInit /\ [][RetrieveNext]_vars

\* retrieve against an index built in any space, with and without an API key
ReadPathInit ==
    /\ StoreInit(store, PipeRows)
    /\ indexModel \in IndexSpaces
    /\ apiKey \in BOOLEAN
    /\ options \in RetrievalOptions
    /\ rpc = "call"
    /\ result = NoResult
    /\ PipelineIdle
    /\ RestIdle

ReadPathSpec == ReadPathInit /\ [][RetrieveNext]_vars

\* ------------------------------------------------- POST /rag/pipeline
\* Characters of the LLM response body.  DATA is the five characters
\* `data:`, a fragment is one complete JSON document whose
\* candidates[0].content.parts[0].text is that fragment.
DATA == "data:"
SP == " "
CR == "CR"
LF == "LF"
Frags == {"x", "y"}
CANNED_ANSWER == <<"No relevant code was found.">>

StageOrder == <<"stage:embedding", "stage:retrieval", "stage:ranking",
                "stage:context", "stage:generation">>

Ev(name, status, data) == [event |-> name, status |-> status, data |-> data]

\* String.prototype.split("\n"): the pieces between the separators
RECURSIVE SplitLF(_, _)
SplitLF(s, cur) ==
    IF s = <<>> THEN <<cur>>
    ELSE IF Head(s) = LF THEN <<cur>> \o SplitLF(Tail(s), <<>>)
         ELSE SplitLF(Tail(s), Append(cur, Head(s)))

IsSpace(c) == c \in {SP, CR, LF}

RECURSIVE TrimStart(_)
TrimStart(s) ==
    IF s # <<>> /\ IsSpace(Head(s)) THEN TrimStart(Tail(s)) ELSE s

RECURSIVE TrimEnd(_)
TrimEnd(s) ==
    IF s # <<>> /\ IsSpace(s[Len(s)]) THEN TrimEnd(SubSeq(s, 1, Len(s) - 1)) ELSE s

Trim(s) == TrimEnd(TrimStart(s))

\* line.startsWith("data: ")
StartsWithData(line) == Len(line) >= 2 /\ line[1] = DATA /\ line[2] = SP

\* the text of one line, <<>> when the line is skipped: not a data line, an
\* empty payload, [DONE], malformed JSON (the catch) or no text in it
LineText(line) ==
    IF ~StartsWithData(line) THEN <<>>
    ELSE LET jsonStr == Trim(SubSeq(line, 3, Len(line)))
         IN IF jsonStr = <<>> \/ jsonStr = <<"[DONE]">> THEN <<>>
            ELSE IF Len(jsonStr) = 1 /\ jsonStr[1] \in Frags THEN jsonStr
            ELSE <<>>

\* the texts of the complete lines, in order
RECURSIVE LineTexts(_)
LineTexts(lines) ==
    IF lines = <<>> THEN <<>>
    ELSE LineText(Head(lines)) \o LineTexts(Tail(lines))

TokenEventsTwice(texts) ==
    [i \in 1..(2 * Len(texts)) |-> Ev("token", "none", <<texts[(i + 1) \div 2]>>)]

TokenEvents(texts) == [i \in 1..Len(texts) |-> Ev("token", "none", <<texts[i]>>)]

\* the events of the zero-candidate branch
ZeroCandidateEventsNoContext ==
    <<Ev("stage:ranking", "done", <<>>),
      Ev("stage:generation", "done", CANNED_ANSWER)>>

ZeroCandidateEventsWithToken ==
    <<Ev("stage:ranking", "done", <<>>),
      Ev("stage:context", "done", <<>>),
      Ev("token", "none", CANNED_ANSWER),
      Ev("stage:generation", "done", CANNED_ANSWER)>>

ZeroCandidateEvents ==
    <<Ev("stage:ranking", "done", <<>>),
      Ev("stage:context", "done", <<>>),
      Ev("stage:generation", "done", CANNED_ANSWER)>>

ChunkIds(ranked) == [i \in 1..Len(ranked) |-> ranked[i].id]

\* stage 3
RankingEventsActiveOnly(ranked) == <<Ev("stage:ranking", "active", <<>>)>>

RankingEvents(ranked) ==
    <<Ev("stage:ranking", "active", <<>>),
      Ev("stage:ranking", "done", ChunkIds(ranked))>>

\* emit("error", ...) of the early returns and of the catch block
NO_KEY == "GEMINI_API_KEY not set"
GEMINI_ERROR == "Gemini error"
ERR_MESSAGE == "err.message"

ErrorEventsTwice(message) ==
    <<Ev("error", "none", <<message>>), Ev("error", "none", <<message>>)>>

ErrorEvents(message) == <<Ev("error", "none", <<message>>)>>

RepoIds == {"", "o/r"}
Queries == {"", "q"}
BodyTopKs == {Undefined} \cup Given({0, 1})
Bodies == [repoId : RepoIds, query : Queries, topK : BodyTopKs]

\* the response bodies the LLM sends: n data lines, each followed by a blank
\* line, with LF or CR LF line ends; the last line may lack its blank line
\* or its line end
Eol(style) == IF style = "crlf" THEN <<CR, LF>> ELSE <<LF>>

RECURSIVE SseBody(_, _, _)
SseBody(fs, style, ending) ==
    IF fs = <<>> THEN <<>>
    ELSE <<DATA, SP, Head(fs)>>
         \o (IF Len(fs) > 1 \/ ending = "blank" THEN Eol(style) \o Eol(style)
             ELSE IF ending = "eol" THEN Eol(style)
             ELSE <<>>)
         \o SseBody(Tail(fs), style, ending)

Styles == {"lf", "crlf"}
Endings == {"blank", "eol", "cut"}

\* the fragments a response body carries, read off its characters
FragsOf(s) == SelectSeq(s, LAMBDA c : c \in Frags)

Awaiting == {"embedding", "retrieval", "fetch", "errText", "reading"}

\* router.post("/pipeline"): validation, SSE headers, stage 1 starts
Request ==
    /\ pc = "idle"
    /\ IF body.repoId = "" \/ body.query = ""
       THEN /\ httpStatus' = 400
            /\ pc' = "rejected"
            /\ events' = events
            /\ UNCHANGED queryRequests
       ELSE /\ httpStatus' = 200
            /\ events' = events \o <<Ev("stage:embedding", "active", <<>>)>>
            /\ pc' = "embedding"
            /\ queryRequests' = queryRequests \o embedQueryRequests(apiKey)
    /\ UNCHANGED <<store, llmCalls, body, apiKey, upstream, pos, buffer, fullAnswer, aborted>>
    /\ UNCHANGED retrieveVars
    /\ UNCHANGED otherVars

\* embedQuery resolves; stage 2 starts
EmbedQueryReturns ==
    /\ pc = "embedding"
    /\ events' = events \o <<Ev("stage:embedding", "done", <<>>),
                             Ev("stage:retrieval", "active", <<>>)>>
    /\ pc' = "retrieval"
    /\ UNCHANGED <<store, llmCalls, body, apiKey, httpStatus, upstream, pos, buffer,
                   fullAnswer, aborted>>
    /\ UNCHANGED retrieveVars
    /\ UNCHANGED otherVars
    /\ UNCHANGED queryRequests

\* vectorSearch resolves; the zero-candidate branch, or stages 3 and 4 and
\* the start of stage 5 up to the fetch.  assembleContext is synchronous; it
\* returns (assembled) or throws into the catch block.
VectorSearchReturns ==
    /\ pc = "retrieval"
    /\ LET finalTopK == Coalesce(body.topK, PIPELINE_DEFAULT_TOP_K)
           candidateCount == finalTopK * PIPELINE_MULTIPLIER
           candidates == vectorSearch(store, candidateCount, PIPELINE_MIN_SCORE)
           ranked == rerankByFileProximity(candidates, finalTopK)
           retrieved == <<Ev("stage:retrieval", "done", <<>>)>>
           toContext == retrieved \o RankingEvents(ranked)
                          \o <<Ev("stage:context", "active", <<>>)>>
           toGeneration == toContext
                          \o <<Ev("stage:context", "done", <<>>),
                               Ev("stage:generation", "active", <<>>)>>
       IN /\ ~vectorSearchThrows(candidateCount)
          /\ ~DimensionError(embedQuerySpace(apiKey).dim, indexModel.dim)
          /\ IF Len(candidates) = 0
             THEN /\ events' = events \o retrieved \o ZeroCandidateEvents
                  /\ pc' = "closed"
                  /\ llmCalls' = llmCalls
             ELSE \E assembled \in BOOLEAN :
                    IF ~assembled
                    THEN /\ events' = events \o toContext \o ErrorEvents(ERR_MESSAGE)
                         /\ pc' = "closed"
                         /\ llmCalls' = llmCalls
                    ELSE IF ~apiKey
                    THEN /\ events' = events \o toGeneration \o ErrorEvents(NO_KEY)
                         /\ pc' = "closed"
                         /\ llmCalls' = llmCalls
                    ELSE /\ events' = events \o toGeneration
                         /\ pc' = "fetch"
                         /\ llmCalls' = llmCalls + 1
    /\ UNCHANGED <<store, body, apiKey, httpStatus, upstream, pos, buffer,
                   fullAnswer, aborted>>
    /\ UNCHANGED retrieveVars
    /\ UNCHANGED otherVars
    /\ UNCHANGED queryRequests

\* fetch resolves with ok and a body: the read loop starts
FetchOk ==
    /\ pc = "fetch"
    /\ \E n \in 0..MaxFrags : \E fs \in [1..n -> Frags] :
       \E style \in Styles : \E ending \in Endings :
          upstream' = SseBody(fs, style, ending)
    /\ pos' = 0
    /\ buffer' = <<>>
    /\ fullAnswer' = <<>>
    /\ pc' = "reading"
    /\ UNCHANGED <<store, llmCalls, body, apiKey, httpStatus, events, aborted>>
    /\ UNCHANGED retrieveVars
    /\ UNCHANGED otherVars
    /\ UNCHANGED queryRequests

\* fetch resolves with !ok (or no body): the error text is awaited
FetchNotOk ==
    /\ pc = "fetch"
    /\ pc' = "errText"
    /\ UNCHANGED <<store, llmCalls, body, apiKey, httpStatus, events, upstream, pos,
                   buffer, fullAnswer, aborted>>
    /\ UNCHANGED retrieveVars
    /\ UNCHANGED otherVars
    /\ UNCHANGED queryRequests

\* geminiRes.text() resolves: the Gemini error is emitted
ErrTextReturns ==
    /\ pc = "errText"
    /\ events' = events \o ErrorEvents(GEMINI_ERROR)
    /\ pc' = "closed"
    /\ UNCHANGED <<store, llmCalls, body, apiKey, httpStatus, upstream, pos, buffer,
                   fullAnswer, aborted>>
    /\ UNCHANGED retrieveVars
    /\ UNCHANGED otherVars
    /\ UNCHANGED queryRequests

\* reader.read() resolves with a value: one pass of the while loop
ReadChunk ==
    /\ pc = "reading"
    /\ \E n \in 1..MaxRead :
         /\ pos + n <= Len(upstream)
         /\ LET value == SubSeq(upstream, pos + 1, pos + n)
                lines == SplitLF(buffer \o value, <<>>)
                texts == LineTexts(SubSeq(lines, 1, Len(lines) - 1))
            IN /\ buffer' = lines[Len(lines)]
               /\ fullAnswer' = fullAnswer \o texts
               /\ events' = events \o TokenEvents(texts)
         /\ pos' = pos + n
    /\ UNCHANGED <<store, llmCalls, body, apiKey, pc, httpStatus, upstream, aborted>>
    /\ UNCHANGED retrieveVars
    /\ UNCHANGED otherVars
    /\ UNCHANGED queryRequests

\* reader.read() resolves with done: the final event
ReadDone ==
    /\ pc = "reading"
    /\ pos = Len(upstream)
    /\ events' = events \o <<Ev("stage:generation", "done", fullAnswer)>>
    /\ pc' = "closed"
    /\ UNCHANGED <<store, llmCalls, body, apiKey, httpStatus, upstream, pos, buffer,
                   fullAnswer, aborted>>
    /\ UNCHANGED retrieveVars
    /\ UNCHANGED otherVars
    /\ UNCHANGED queryRequests

\* an awaited call rejects (embedQuery, vectorSearch, fetch, text, read):
\* the catch block
Catch ==
    /\ pc \in Awaiting
    /\ events' = events \o ErrorEvents(ERR_MESSAGE)
    /\ pc' = "closed"
    /\ UNCHANGED <<store, llmCalls, body, apiKey, httpStatus, upstream, pos, buffer,
                   fullAnswer, aborted>>
    /\ UNCHANGED retrieveVars
    /\ UNCHANGED otherVars
    /\ UNCHANGED queryRequests

\* the caller disconnects while the response is open; the handler registers
\* no listener and holds no abort signal, so nothing of its state changes
ClientAbort ==
    /\ pc \in Awaiting
    /\ ~aborted
    /\ aborted' = TRUE
    /\ UNCHANGED <<store, llmCalls, body, apiKey, pc, httpStatus, events, upstream, pos,
                   buffer, fullAnswer>>
    /\ UNCHANGED retrieveVars
    /\ UNCHANGED otherVars
    /\ UNCHANGED queryRequests

\* the index was built in the space this process embeds queries in
Init ==
    /\ StoreInit(store, PipeRows)
    /\ body \in Bodies
    /\ apiKey \in BOOLEAN
    /\ indexModel = embedQuerySpace(apiKey)
    /\ llmCalls = 0
    /\ pc = "idle"
    /\ httpStatus = 0
    /\ events = <<>>
    /\ upstream = <<>>
    /\ pos = 0
    /\ buffer = <<>>
    /\ fullAnswer = <<>>
    /\ aborted = FALSE
    /\ options = [topK |-> Undefined, candidateMultiplier |-> Undefined,
                  minScore |-> Undefined]
    /\ rpc = "none"
    /\ result = NoResult
    /\ RestIdle

Next ==
    \/ Request
    \/ EmbedQueryReturns
    \/ VectorSearchReturns
    \/ FetchOk
    \/ FetchNotOk
    \/ ErrTextReturns
    \/ ReadChunk
    \/ ReadDone
    \/ Catch
    \/ ClientAbort

Spec == Init /\ [][Next]_vars

\* ------------------------------------------------------------ embedChunks
\* no retrieve call and no pipeline request
RetrieveIdle ==
    /\ options = [topK |-> Undefined, candidateMultiplier |-> Undefined,
                  minScore |-> Undefined]
    /\ rpc = "none"
    /\ result = NoResult

notEmbedVars == <<store, indexModel, retrieveVars, pipelineVars, writerVars,
                  queueVars, filterVars,
    queryRequests, laterVars>>

\* chunks are told apart by their id
ChunkLists == {[i \in 1..n |-> i] : n \in 0..MaxChunks}

buildEmbedText(chunk) == <<"File", chunk>>

\* a vector: the text it was computed from and its number of components
Vec(text, dim) == [of |-> text, dim |-> dim]

BatchOneMore(cs, i) == SubSeq(cs, i + 1, Min(i + GEMINI_BATCH_SIZE + 1, Len(cs)))

\* chunks.slice(i, i + GEMINI_BATCH_SIZE)
Batch(cs, i) == SubSeq(cs, i + 1, Min(i + GEMINI_BATCH_SIZE, Len(cs)))

BatchRequest(batch) ==
    [model |-> GEMINI_EMBEDDING_MODEL,
     texts |-> [j \in 1..Len(batch) |-> buildEmbedText(batch[j])],
     taskType |-> TASK_TYPE_DOCUMENT,
     outputDimensionality |-> GEMINI_EMBEDDING_DIM]

\* dimensions the service answers with: the requested one or the model's own
ServiceDims == {GEMINI_EMBEDDING_DIM, 4 * GEMINI_EMBEDDING_DIM}

\* what the service can answer to a request: a failure status, one vector per
\* text in request order, or a list that is one vector short
Responses(req) ==
    {[ok |-> FALSE, embeddings |-> <<>>]}
    \cup {[ok |-> TRUE,
           embeddings |-> [j \in 1..Len(req.texts) |-> Vec(req.texts[j], d)]]
          : d \in ServiceDims}
    \cup {[ok |-> TRUE,
           embeddings |-> [j \in 1..(Len(req.texts) - 1) |->
                              Vec(req.texts[j], GEMINI_EMBEDDING_DIM)]]}

callGeminiBatchEmbedThrows(batch, resp) ==
    ~resp.ok \/ Len(resp.embeddings) # Len(batch)

ErrorOf(resp) == IF ~resp.ok THEN "http" ELSE "count"

PairUpReversed(batch, vectors) ==
    [j \in 1..Len(batch) |->
        [chunk |-> batch[j], embedding |-> vectors[Len(batch) + 1 - j]]]

\* embedded.push({ chunk: batch[j], embedding: vectors[j] }) for each j
PairUp(batch, vectors) ==
    [j \in 1..Len(batch) |-> [chunk |-> batch[j], embedding |-> vectors[j]]]

BatchFailedPartial(err, soFar) ==
    [pc |-> "returned", error |-> err,
     result |-> [embedded |-> soFar, model |-> GEMINI_EMBEDDING_MODEL]]

\* the throw of callGeminiBatchEmbed leaves embedWithGemini and embedChunks
BatchFailed(err, soFar) ==
    [pc |-> "rejected", error |-> err, result |-> NoEmbedding]

\* embedChunks up to its first await
EmbedChunksCall ==
    /\ embedPc = "start"
    /\ IF Len(chunks) = 0
         THEN /\ embedPc' = "returned"
              /\ embedResult' = [embedded |-> <<>>, model |-> GEMINI_EMBEDDING_MODEL]
              /\ UNCHANGED requests
         ELSE IF apiKey
         THEN /\ embedPc' = "fetch"
              /\ requests' = Append(requests, BatchRequest(Batch(chunks, 0)))
              /\ UNCHANGED embedResult
         ELSE /\ embedPc' = "import"
              /\ UNCHANGED <<requests, embedResult>>
    /\ UNCHANGED <<chunks, batchStart, embedded, embedError, pauses>>
    /\ UNCHANGED notEmbedVars

\* the fetch of callGeminiBatchEmbed settles
BatchReturns ==
    /\ embedPc = "fetch"
    /\ \E resp \in Responses(requests[Len(requests)]) :
         LET batch == Batch(chunks, batchStart)
             all == embedded \o PairUp(batch, resp.embeddings)
         IN  IF callGeminiBatchEmbedThrows(batch, resp)
             THEN LET end == BatchFailed(ErrorOf(resp), embedded)
                  IN  /\ embedPc' = end.pc
                      /\ embedError' = end.error
                      /\ embedResult' = end.result
                      /\ UNCHANGED embedded
             ELSE /\ embedded' = all
                  /\ UNCHANGED embedError
                  /\ IF batchStart + GEMINI_BATCH_SIZE < Len(chunks)
                       THEN /\ embedPc' = "sleep"
                            /\ UNCHANGED embedResult
                       ELSE /\ embedPc' = "returned"
                            /\ embedResult' =
                                 [embedded |-> all, model |-> GEMINI_EMBEDDING_MODEL]
    /\ UNCHANGED <<chunks, batchStart, requests, pauses>>
    /\ UNCHANGED notEmbedVars

\* sleep(200) elapses and the loop sends the next batch
SleepDone ==
    /\ embedPc = "sleep"
    /\ pauses' = pauses + 1
    /\ batchStart' = batchStart + GEMINI_BATCH_SIZE
    /\ requests' = Append(requests,
                          BatchRequest(Batch(chunks, batchStart + GEMINI_BATCH_SIZE)))
    /\ embedPc' = "fetch"
    /\ UNCHANGED <<chunks, embedded, embedResult, embedError>>
    /\ UNCHANGED notEmbedVars

\* the dynamic import of the local model fails
XenovaMissing ==
    /\ embedPc = "import"
    /\ embedPc' = "rejected"
    /\ embedError' = "not installed"
    /\ UNCHANGED <<chunks, batchStart, embedded, embedResult, requests, pauses>>
    /\ UNCHANGED notEmbedVars

\* the local model is loaded
XenovaLoaded ==
    /\ embedPc = "import"
    /\ embedPc' = "xenova"
    /\ UNCHANGED <<chunks, batchStart, embedded, embedResult, embedError,
                   requests, pauses>>
    /\ UNCHANGED notEmbedVars

\* one turn of the loop of embedWithXenova
XenovaEmbeds ==
    /\ embedPc = "xenova"
    /\ LET chunk == chunks[batchStart + 1]
           all == Append(embedded,
                         [chunk |-> chunk,
                          embedding |-> Vec(buildEmbedText(chunk), XENOVA_DIM)])
       IN  /\ embedded' = all
           /\ batchStart' = batchStart + 1
           /\ IF batchStart + 1 < Len(chunks)
                THEN UNCHANGED <<embedPc, embedResult>>
                ELSE /\ embedPc' = "returned"
                     /\ embedResult' = [embedded |-> all, model |-> XENOVA_MODEL]
    /\ UNCHANGED <<chunks, embedError, requests, pauses>>
    /\ UNCHANGED notEmbedVars

EmbedInit ==
    /\ chunks \in ChunkLists
    /\ apiKey \in BOOLEAN
    /\ embedPc = "start"
    /\ batchStart = 0
    /\ embedded = <<>>
    /\ embedResult = NoEmbedding
    /\ embedError = "none"
    /\ requests = <<>>
    /\ pauses = 0
    /\ store = <<>>
    /\ indexModel = GeminiSpace
    /\ RetrieveIdle
    /\ PipelineIdle
    /\ WriterIdle /\ QueueIdle /\ FilterIdle /\ LaterIdle

EmbedNext ==
    \/ EmbedChunksCall
    \/ BatchReturns
    \/ SleepDone
    \/ XenovaMissing
    \/ XenovaLoaded
    \/ XenovaEmbeds

EmbedSpec == EmbedInit /\ [][EmbedNext]_vars

\* -------------------------------------- indexing next to query embedding
\* one API process embeds chunks for the index while it serves a retrieve
\* call and a pipeline request up to the end of its embedding stage
TaskChunkLists ==
    {[i \in 1..n |-> i] : n \in {0, 1, MaxChunks - GEMINI_BATCH_SIZE}}

\* the pipeline's topK is read after the embedding stage
TaskBodies == {b \in Bodies : b.topK = Undefined}

TaskTypeInit ==
    /\ StoreInit(store, PipeRows)
    /\ indexModel = GeminiSpace
    /\ body \in TaskBodies
    /\ apiKey \in BOOLEAN
    /\ llmCalls = 0
    /\ pc = "idle"
    /\ httpStatus = 0
    /\ events = <<>>
    /\ upstream = <<>>
    /\ pos = 0
    /\ buffer = <<>>
    /\ fullAnswer = <<>>
    /\ aborted = FALSE
    /\ options \in RetrievalOptions
    /\ rpc = "call"
    /\ result = NoResult
    /\ chunks \in TaskChunkLists
    /\ embedPc = "start"
    /\ batchStart = 0
    /\ embedded = <<>>
    /\ embedResult = NoEmbedding
    /\ embedError = "none"
    /\ requests = <<>>
    /\ pauses = 0
    /\ WriterIdle /\ QueueIdle /\ FilterIdle /\ LaterIdle

TaskTypeNext ==
    \/ EmbedNext
    \/ RetrieveNext
    \/ Request
    \/ EmbedQueryReturns

TaskTypeSpec == TaskTypeInit /\ [][TaskTypeNext]_vars

\* ----------------------------------------------------- writeToVectorStore
\* nothing is read: no table, no retrieve call, no pipeline request
ReadIdle ==
    /\ store = <<>>
    /\ indexModel = GeminiSpace
    /\ apiKey = TRUE
    /\ RetrieveIdle
    /\ PipelineIdle

notWriterVars == <<store, indexModel, retrieveVars, pipelineVars, embedVars,
                   queueVars, filterVars,
    queryRequests, laterVars>>

CommitHashes == {Undefined} \cup Given({"h1", "h2"})
WriterModels == {GEMINI_EMBEDDING_MODEL, XENOVA_MODEL}

\* the embedded chunks of a call, by their (filePath, chunkIndex) key
EmbeddedSets == {{1}, {1, 2}, {2, 3}}

ShouldSkipWhileIndexing(index, commitHash, model) ==
    /\ index.status = "indexing"
    /\ commitHash # Undefined
    /\ index.commitHash = commitHash
    /\ index.model = model

\* rule 1: a prior index with the same commitHash, the same model and status
\* ready
ShouldSkip(index, commitHash, model) ==
    /\ index.status = "ready"
    /\ commitHash # Undefined
    /\ index.commitHash = commitHash
    /\ index.model = model

\* a ready index of the same model whose commit hash is as unknown as the
\* call's: the spec leaves open whether two unknown hashes are the same
MaySkip(index, commitHash, model) ==
    /\ index.status = "ready"
    /\ commitHash = Undefined
    /\ index.commitHash = Undefined
    /\ index.model = model

\* rules 2 and 3
Rewrite(index, model) ==
    IF index.status # "none" /\ index.model # model
    THEN "full-reindex" ELSE "upsert"

Strategies(index, commitHash, model) ==
    IF ShouldSkip(index, commitHash, model) THEN {"skipped"}
    ELSE {Rewrite(index, model)}
         \cup (IF MaySkip(index, commitHash, model) THEN {"skipped"} ELSE {})

Rows(keys, model) == {[key |-> k, model |-> model] : k \in keys}

\* full-reindex: delete all rows, insert the new set
\* upsert: insert the rows that are new, delete those no longer present
RowsAfter(rows, call) ==
    IF call.strategy = "full-reindex"
    THEN Rows(call.embedded, call.model)
    ELSE {r \in rows : r.key \in call.embedded}
         \cup Rows({k \in call.embedded : \A r \in rows : r.key # k}, call.model)

Written(call, ok, indexBefore, rowsBefore, indexAfter, rowsAfter) ==
    [strategy |-> call.strategy, commitHash |-> call.commitHash,
     model |-> call.model, ok |-> ok,
     indexBefore |-> indexBefore, rowsBefore |-> rowsBefore,
     indexAfter |-> indexAfter, rowsAfter |-> rowsAfter]

\* a call takes the repository's lock and decides its strategy
WriteCall ==
    /\ writeCall = NoCall
    /\ Len(writes) < MaxWrites
    /\ \E commitHash \in CommitHashes, model \in WriterModels,
          data \in EmbeddedSets :
         \E strategy \in Strategies(repoIndex, commitHash, model) :
            LET call == [strategy |-> strategy, commitHash |-> commitHash,
                         model |-> model, embedded |-> data,
                         indexBefore |-> repoIndex]
            IN  IF strategy = "skipped"
                THEN /\ UNCHANGED <<repoIndex, codeChunks, writeCall>>
                     /\ writes' = Append(writes,
                            Written(call, TRUE, repoIndex, codeChunks,
                                    repoIndex', codeChunks'))
                ELSE /\ writeCall' = call
                     /\ repoIndex' = [repoIndex EXCEPT !.status = "indexing"]
                     /\ UNCHANGED <<codeChunks, writes>>
    /\ UNCHANGED notWriterVars

\* the transaction commits
WriteCommits ==
    /\ writeCall # NoCall
    /\ codeChunks' = RowsAfter(codeChunks, writeCall)
    /\ repoIndex' = [status |-> "ready", commitHash |-> writeCall.commitHash,
                     model |-> writeCall.model]
    /\ writes' = Append(writes,
           Written(writeCall, TRUE, writeCall.indexBefore, codeChunks,
                   repoIndex', codeChunks'))
    /\ writeCall' = NoCall
    /\ UNCHANGED notWriterVars

\* the transaction fails: the rows and the recorded snapshot stay
WriteFails ==
    /\ writeCall # NoCall
    /\ UNCHANGED codeChunks
    /\ repoIndex' = [repoIndex EXCEPT !.status = "failed"]
    /\ writes' = Append(writes,
           Written(writeCall, FALSE, writeCall.indexBefore, codeChunks,
                   repoIndex', codeChunks'))
    /\ writeCall' = NoCall
    /\ UNCHANGED notWriterVars

WriterInit ==
    /\ WriterIdle
    /\ ReadIdle
    /\ EmbedIdle /\ QueueIdle /\ FilterIdle /\ LaterIdle

WriterNext == WriteCall \/ WriteCommits \/ WriteFails

WriterSpec == WriterInit /\ [][WriterNext]_vars

\* ------------------------------------------------------------- job runner
notQueueVars == <<store, indexModel, retrieveVars, pipelineVars, embedVars,
                  writerVars, filterVars,
    queryRequests, laterVars>>

Repos == {"o/a", "o/b"}

\* size of the worker pool
WORKERS == 2

Unfinished(j) == jobs[j].state \in {"waiting", "active"}

ActiveJobs == {j \in 1..Len(jobs) : jobs[j].state = "active"}

\* the job an enqueue for a repository under indexing returns
ExistingJob(r) ==
    CHOOSE j \in 1..Len(jobs) : jobs[j].repo = r /\ Unfinished(j)

IsIndexingWrongStatus(status) == status = "pending"

\* the repo-key check of enqueueIndex
IsIndexing(status) == status = "indexing"

\* enqueueIndex: one atomic check and insert on the repo key
Enqueue ==
    /\ enqueues < MaxEnqueues
    /\ enqueues' = enqueues + 1
    /\ \E r \in Repos :
         IF IsIndexing(repoStatus[r])
         THEN /\ enqueued' = [repo |-> r, jobId |-> ExistingJob(r),
                              created |-> FALSE]
              /\ UNCHANGED <<jobs, repoStatus>>
         ELSE /\ jobs' = Append(jobs, [repo |-> r, state |-> "waiting"])
              /\ repoStatus' = [repoStatus EXCEPT ![r] = "indexing"]
              /\ enqueued' = [repo |-> r, jobId |-> Len(jobs) + 1,
                              created |-> TRUE]
    /\ UNCHANGED notQueueVars

\* a free worker takes a waiting job
TakeJob ==
    /\ Cardinality(ActiveJobs) < WORKERS
    /\ \E j \in 1..Len(jobs) :
         /\ jobs[j].state = "waiting"
         /\ jobs' = [jobs EXCEPT ![j].state = "active"]
    /\ UNCHANGED <<repoStatus, enqueued, enqueues>>
    /\ UNCHANGED notQueueVars

\* the last stage of a job returns
JobCompletes ==
    /\ \E j \in ActiveJobs :
         /\ jobs' = [jobs EXCEPT ![j].state = "completed"]
         /\ repoStatus' = [repoStatus EXCEPT ![jobs[j].repo] = "ready"]
    /\ UNCHANGED <<enqueued, enqueues>>
    /\ UNCHANGED notQueueVars

\* a stage of a job throws or the job is cancelled
JobFails ==
    /\ \E j \in ActiveJobs :
         /\ jobs' = [jobs EXCEPT ![j].state = "failed"]
         /\ repoStatus' = [repoStatus EXCEPT ![jobs[j].repo] = "failed"]
    /\ UNCHANGED <<enqueued, enqueues>>
    /\ UNCHANGED notQueueVars

QueueInit ==
    /\ jobs = <<>>
    /\ repoStatus = [r \in Repos |-> "none"]
    /\ enqueued = NoJob
    /\ enqueues = 0
    /\ ReadIdle
    /\ EmbedIdle /\ WriterIdle /\ FilterIdle /\ LaterIdle

QueueNext == Enqueue \/ TakeJob \/ JobCompletes \/ JobFails

QueueSpec == QueueInit /\ [][QueueNext]_vars

\* ------------------------------------------------------------ filterFiles
notFilterVars == <<store, indexModel, retrieveVars, pipelineVars, embedVars,
                   writerVars, queueVars,
    queryRequests, laterVars>>

IGNORED_SEGMENTS ==
    {"node_modules", ".git", "dist", "build", ".next", "__pycache__", "vendor",
     "coverage", "target", "bin", "obj"}
IGNORED_FILES == {"package-lock.json"}
ALLOWED_EXTENSIONS == {"ts", "js", "json", "py", "md"}
MAX_FILE_SIZE == 500 * 1024

\* a path: its directory segments, its file name and the name's extension
Paths ==
    {[dirs |-> <<"node_modules", "express">>, name |-> "index.js", ext |-> "js"],
     [dirs |-> <<>>, name |-> "package-lock.json", ext |-> "json"],
     [dirs |-> <<"src">>, name |-> "index.ts", ext |-> "ts"],
     [dirs |-> <<"src", "auth">>, name |-> "service.py", ext |-> "py"],
     [dirs |-> <<"dist">>, name |-> "bundle.js", ext |-> "js"],
     [dirs |-> <<"assets">>, name |-> "logo.png", ext |-> "png"]}

Sizes == {0, 20, MAX_FILE_SIZE, MAX_FILE_SIZE + 1}

\* binary: the content is not valid UTF-8
FilePool == [path : Paths, sizeBytes : Sizes, binary : BOOLEAN]

\* the blob tree of a repository: no path twice
FileLists(maxFiles) ==
    UNION {{fs \in [1..n -> FilePool] :
               \A i, j \in 1..n : fs[i].path = fs[j].path => i = j}
           : n \in 0..maxFiles}

HasIgnoredSegment(path) ==
    \/ \E k \in 1..Len(path.dirs) : path.dirs[k] \in IGNORED_SEGMENTS
    \/ path.name \in IGNORED_SEGMENTS \cup IGNORED_FILES

\* the reason a file is rejected for, "" for an accepted file
Reason(file) ==
    IF HasIgnoredSegment(file.path) THEN "ignored-path"
    ELSE IF file.path.ext \notin ALLOWED_EXTENSIONS THEN "extension-not-allowed"
    ELSE IF file.sizeBytes > MAX_FILE_SIZE THEN "too-large"
    ELSE IF file.binary THEN "binary"
    ELSE IF file.sizeBytes = 0 THEN "empty"
    ELSE ""

IsAccepted(file) == Reason(file) = ""
IsRejected(file) == Reason(file) # ""
IsRejectedNotEmpty(file) == Reason(file) \notin {"", "empty"}

Rejection(fs) == [i \in 1..Len(fs) |-> [path |-> fs[i].path, reason |-> Reason(fs[i])]]

RejectedOfDropsEmpty(fs) == Rejection(SelectSeq(fs, IsRejectedNotEmpty))

RejectedOf(fs) == Rejection(SelectSeq(fs, IsRejected))

filterFiles(fs) ==
    [accepted |-> SelectSeq(fs, IsAccepted), rejected |-> RejectedOf(fs)]

FilterReturns ==
    /\ filterPc = "call"
    /\ filterResult' = filterFiles(files)
    /\ filterPc' = "returned"
    /\ UNCHANGED files
    /\ UNCHANGED notFilterVars

FilterInit ==
    /\ files \in FileLists(MaxFiles)
    /\ filterPc = "call"
    /\ filterResult = NoFilterResult
    /\ ReadIdle
    /\ EmbedIdle /\ WriterIdle /\ QueueIdle /\ LaterIdle

FilterNext == FilterReturns

FilterSpec == FilterInit /\ [][FilterNext]_vars

\* ------------------------------------------ calls of rerankByFileProximity
notRankVars == <<store, indexModel, retrieveVars, pipelineVars, embedVars,
                 writerVars, queueVars, filterVars, queryRequests, clientVars>>

RankScores == {30, 38, 95}
RankRows(n) == [1..n -> [filePath : Files, vectorScore : RankScores]]

\* the order vectorSearch returns its rows in
IsSortedDesc(t) ==
    \A i \in 1..(Len(t) - 1) : t[i].vectorScore >= t[i + 1].vectorScore

\* one call of the exported function; the candidates array is read, never
\* written (map builds scored, sort and slice work on scored)
RerankReturns ==
    /\ rrPc = "call"
    /\ rrAnchors' = IF Len(rrCandidates) = 0 THEN {} ELSE AnchorFiles(rrCandidates)
    /\ rrScored' = IF Len(rrCandidates) = 0 THEN <<>> ELSE Scored(rrCandidates)
    /\ rrReturned' = rerankByFileProximity(rrCandidates, rrTopK)
    /\ rrPc' = "returned"
    /\ UNCHANGED <<rrCandidates, rrTopK>>
    /\ UNCHANGED notRankVars

RankAllIdle ==
    /\ ReadIdle
    /\ EmbedIdle /\ WriterIdle /\ QueueIdle /\ FilterIdle
    /\ ClientIdle /\ queryRequests = <<>>

\* the function called with a list in any order
RerankInit ==
    /\ \E n \in 0..MaxCandidates : \E t \in RankRows(n) :
          rrCandidates = WithIds(t)
    /\ rrTopK \in 0..MaxRankTopK
    /\ rrPc = "call"
    /\ rrAnchors = {}
    /\ rrScored = <<>>
    /\ rrReturned = <<>>
    /\ RankAllIdle

\* the function called as retrieve and the pipeline call it: with the rows
\* of vectorSearch, in descending order of vectorScore
RankInit ==
    /\ \E n \in 0..MaxRanked : \E t \in RankRows(n) :
          IsSortedDesc(t) /\ rrCandidates = WithIds(t)
    /\ rrTopK \in 0..MaxRankTopK
    /\ rrPc = "call"
    /\ rrAnchors = {}
    /\ rrScored = <<>>
    /\ rrReturned = <<>>
    /\ RankAllIdle

RerankNext == RerankReturns

RerankSpec == RerankInit /\ [][RerankNext]_vars

RankSpec == RankInit /\ [][RerankNext]_vars

\* ------------------------------------------- RAGPipelineView (browser)
\* emitted, clientPc, netPos, clientBuffer and handled hold one entry per
\* runPipeline call; streaming, answer and clientError are the component's
\* state, shared by the calls
notClientVars == <<store, indexModel, retrieveVars, pipelineVars, embedVars,
                   writerVars, queueVars, filterVars, queryRequests, rankVars>>

StageNames == {StageOrder[i] : i \in 1..Len(StageOrder)}

\* the data of an event: json says whether the data line parses as JSON
EvData(status, text, json) == [status |-> status, text |-> text, json |-> json]

\* the events a response carries before its last one; the second stands for
\* a data line that is not JSON
StreamEvents ==
    {[event |-> "token", data |-> EvData("none", <<"x">>, TRUE)],
     [event |-> "token", data |-> EvData("none", <<>>, FALSE)]}

\* the events after which the server ends the response
FinalEvents ==
    {[event |-> "stage:generation", data |-> EvData("done", <<"x">>, TRUE)],
     [event |-> "error", data |-> EvData("none", <<"boom">>, TRUE)]}

\* a response: up to MaxEvents events, of which only the last can be a final
\* one
ClientResponses ==
    {<<>>}
    \cup UNION {{Append(front, e) :
                   front \in [1..(n - 1) -> StreamEvents],
                   e \in StreamEvents \cup FinalEvents} : n \in 1..MaxEvents}

LineFeed == [k |-> "lf", v |-> ""]

\* res.write(`event: ${event}\ndata: ${JSON.stringify(data)}\n\n`): the text
\* of a line is one unit of the stream, a line feed another
WireOf(e) ==
    <<[k |-> "event", v |-> e.event], LineFeed,
      [k |-> "data", v |-> e.data], LineFeed, LineFeed>>

RECURSIVE Wire(_)
Wire(evs) == IF evs = <<>> THEN <<>> ELSE WireOf(Head(evs)) \o Wire(Tail(evs))

\* buffer.split("\n")
RECURSIVE SplitLines(_, _)
SplitLines(s, cur) ==
    IF s = <<>> THEN <<cur>>
    ELSE IF Head(s).k = "lf" THEN <<cur>> \o SplitLines(Tail(s), <<>>)
         ELSE SplitLines(Tail(s), Append(cur, Head(s)))

\* handleEvent(event, data) on the component state st
handleEvent(event, data, st) ==
    LET logged == [st EXCEPT !.handled = Append(@, [event |-> event, data |-> data])]
    IN  IF event \in StageNames
        THEN IF event = "stage:generation" /\ data.status = "done" /\ data.text # <<>>
             THEN [logged EXCEPT !.answer = data.text, !.streaming = FALSE]
             ELSE logged
        ELSE IF event = "token"
        THEN [logged EXCEPT !.answer = @ \o data.text]
        ELSE IF event = "error"
        THEN [logged EXCEPT
                 !.error = IF data.text = <<>> THEN <<"Unknown pipeline error">>
                           ELSE data.text,
                 !.streaming = FALSE]
        ELSE logged

\* one line of the for loop; st.cur is currentEvent, "" when not set
LineStep(line, st) ==
    IF line # <<>> /\ line[1].k = "event" THEN [st EXCEPT !.cur = line[1].v]
    ELSE IF line # <<>> /\ line[1].k = "data" /\ st.cur # ""
    THEN IF line[1].v.json
         THEN [handleEvent(st.cur, line[1].v, st) EXCEPT !.cur = ""]
         ELSE [st EXCEPT !.threw = TRUE]
    ELSE st

\* the for loop over the complete lines of one read; a throw of JSON.parse
\* leaves the loop
RECURSIVE ForLines(_, _)
ForLines(lines, st) ==
    IF lines = <<>> \/ st.threw THEN st
    ELSE ForLines(Tail(lines), LineStep(Head(lines), st))

catchBlockStillStreaming(st) ==
    [st EXCEPT !.error = <<"Pipeline connection failed">>]

\* catch (err) { setError(...); setStreaming(false); }
catchBlock(st) ==
    [st EXCEPT !.error = <<"Pipeline connection failed">>, !.streaming = FALSE]

\* the component state a call works on
ViewState(r) ==
    [cur |-> "", handled |-> handled[r], answer |-> answer,
     streaming |-> streaming, error |-> clientError, threw |-> FALSE]

Returned(r) == clientPc[r] \in {"ended", "failed", "refused", "returned"}

\* how an earlier call returned is forgotten when a new one starts
Forgotten ==
    [r \in 1..Len(clientPc) |-> IF Returned(r) THEN "returned" ELSE clientPc[r]]

\* the locals of a call are gone when it returns
DropLocals(r) ==
    /\ emitted' = [emitted EXCEPT ![r] = <<>>]
    /\ netPos' = [netPos EXCEPT ![r] = 0]
    /\ clientBuffer' = [clientBuffer EXCEPT ![r] = <<>>]
    /\ handled' = [handled EXCEPT ![r] = <<>>]

\* a click on "Analyze with RAG", or on "Re-run", which is disabled while
\* streaming; runPipeline up to its fetch
RunPipeline ==
    /\ runs < MaxRuns
    /\ runs = 0 \/ ~streaming
    /\ runs' = runs + 1
    /\ clientError' = Undefined
    /\ answer' = <<>>
    /\ streaming' = TRUE
    /\ emitted' = Append(emitted, <<>>)
    /\ clientPc' = Append(Forgotten, "fetch")
    /\ netPos' = Append(netPos, 0)
    /\ clientBuffer' = Append(clientBuffer, <<>>)
    /\ handled' = Append(handled, <<>>)
    /\ UNCHANGED notClientVars

\* fetch resolves with a 200 response whose body is a stream of events
ClientFetchOk(r) ==
    /\ clientPc[r] = "fetch"
    /\ \E resp \in ClientResponses : emitted' = [emitted EXCEPT ![r] = resp]
    /\ clientPc' = [clientPc EXCEPT ![r] = "reading"]
    /\ UNCHANGED <<netPos, clientBuffer, handled, streaming, answer, clientError, runs>>
    /\ UNCHANGED notClientVars

\* !res.ok || !res.body
ClientFetchNotOk(r) ==
    /\ clientPc[r] = "fetch"
    /\ clientError' = <<"Pipeline request failed">>
    /\ streaming' = FALSE
    /\ clientPc' = [clientPc EXCEPT ![r] = "refused"]
    /\ DropLocals(r)
    /\ UNCHANGED <<answer, runs>>
    /\ UNCHANGED notClientVars

\* fetch or reader.read() rejects
ClientRejected(r) ==
    /\ clientPc[r] \in {"fetch", "reading"}
    /\ LET st == catchBlock(ViewState(r))
       IN  /\ clientError' = st.error
           /\ streaming' = st.streaming
    /\ clientPc' = [clientPc EXCEPT ![r] = "failed"]
    /\ DropLocals(r)
    /\ UNCHANGED <<answer, runs>>
    /\ UNCHANGED notClientVars

\* reader.read() resolves with the next n units of the stream, and the loop
\* body runs on them
ClientReadChunk(r) ==
    /\ clientPc[r] = "reading"
    /\ \E n \in 1..(Len(Wire(emitted[r])) - netPos[r]) :
         LET value == SubSeq(Wire(emitted[r]), netPos[r] + 1, netPos[r] + n)
             lines == SplitLines(clientBuffer[r] \o value, <<>>)
             looped == ForLines(SubSeq(lines, 1, Len(lines) - 1), ViewState(r))
             st == IF looped.threw THEN catchBlock(looped) ELSE looped
         IN  /\ answer' = st.answer
             /\ streaming' = st.streaming
             /\ clientError' = st.error
             /\ IF looped.threw
                  THEN /\ clientPc' = [clientPc EXCEPT ![r] = "failed"]
                       /\ DropLocals(r)
                  ELSE /\ netPos' = [netPos EXCEPT ![r] = @ + n]
                       /\ clientBuffer' = [clientBuffer EXCEPT ![r] = lines[Len(lines)]]
                       /\ handled' = [handled EXCEPT ![r] = st.handled]
                       /\ UNCHANGED <<clientPc, emitted>>
    /\ UNCHANGED runs
    /\ UNCHANGED notClientVars

\* reader.read() resolves with done: the loop ends, setStreaming(false)
ClientReadDone(r) ==
    /\ clientPc[r] = "reading"
    /\ netPos[r] = Len(Wire(emitted[r]))
    /\ streaming' = FALSE
    /\ clientPc' = [clientPc EXCEPT ![r] = "ended"]
    /\ DropLocals(r)
    /\ UNCHANGED <<answer, clientError, runs>>
    /\ UNCHANGED notClientVars

\* the promise a call awaits settles
ClientStep(r) ==
    \/ ClientFetchOk(r)
    \/ ClientFetchNotOk(r)
    \/ ClientRejected(r)
    \/ ClientReadChunk(r)
    \/ ClientReadDone(r)

ClientInit ==
    /\ ClientIdle
    /\ ReadIdle /\ EmbedIdle /\ WriterIdle /\ QueueIdle /\ FilterIdle /\ RankIdle
    /\ queryRequests = <<>>

ClientNext ==
    \/ RunPipeline
    \/ \E r \in 1..runs : ClientFetchOk(r)
    \/ \E r \in 1..runs : ClientFetchNotOk(r)
    \/ \E r \in 1..runs : ClientRejected(r)
    \/ \E r \in 1..runs : ClientReadChunk(r)
    \/ \E r \in 1..runs : ClientReadDone(r)

\* a response that has ended settles the promise the call awaits
ClientSpec ==
    /\ ClientInit
    /\ [][ClientNext]_vars
    /\ \A r \in 1..MaxRuns : WF_vars(r <= runs /\ ClientStep(r))

\* ------------------------------------------------- claims on the retriever
FileBoost(retrieved, f) ==
    LET idx == {i \in 1..Len(retrieved) : retrieved[i].filePath = f}
        RECURSIVE Sum(_)
        Sum(I) == IF I = {} THEN 0
                  ELSE LET i == CHOOSE j \in I : TRUE
                       IN retrieved[i].proximityBoost + Sum(I \ {i})
    IN Sum(idx)

CallCandidates ==
    vectorSearch(store, OptCandidateCount(options), OptMinScore(options))

\* C7: the chunks retrieve returns are in non-increasing order of score
C7_SortedByScore ==
    rpc = "returned" =>
        \A i \in 1..Len(result.chunks) : \A j \in 1..Len(result.chunks) :
            i < j => result.chunks[i].score >= result.chunks[j].score

\* a result where the final order differs from the order of the candidates
C7_Witness ==
    /\ rpc = "returned"
    /\ Len(result.chunks) >= 2
    /\ \E i \in 1..Len(result.chunks) : \E j \in 1..Len(result.chunks) :
          /\ i < j
          /\ result.chunks[i].vectorScore < result.chunks[j].vectorScore

\* C8: retrieve returns at most topK chunks (8 when topK is left out)
C8_AtMostTopK ==
    rpc = "returned" => Len(result.chunks) <= OptTopK(options)

\* a result cut down to topK from a longer candidate list
C8_Witness ==
    /\ rpc = "returned"
    /\ Len(result.chunks) = OptTopK(options)
    /\ result.totalCandidates > OptTopK(options)
    /\ OptTopK(options) >= 1

\* C9: every chunk retrieve returns has vectorScore >= minScore (0.3 when
\* minScore is left out)
C9_AboveMinScore ==
    rpc = "returned" =>
        \A i \in 1..Len(result.chunks) :
            result.chunks[i].vectorScore >= OptMinScore(options)

\* a result returned while the table holds a row of an anchor file below
\* the threshold
C9_Witness ==
    /\ rpc = "returned"
    /\ Len(result.chunks) >= 1
    /\ \E r \in 1..Len(store) :
          /\ store[r].vectorScore < OptMinScore(options)
          /\ store[r].filePath \in AnchorFiles(CallCandidates)

\* C10: the boosts of one file sum to at most 0.16, over the scored
\* candidates before truncation and over the returned chunks
C10_BoostCap ==
    rpc = "returned" =>
        \A f \in Files :
            /\ FileBoost(Scored(CallCandidates), f) <= MAX_PROXIMITY_BOOST_PER_FILE
            /\ FileBoost(result.chunks, f) <= MAX_PROXIMITY_BOOST_PER_FILE

\* three or more candidates of one anchor file, two of them boosted
C10_Witness ==
    /\ rpc = "returned"
    /\ \E f \in Files :
          /\ Cardinality({i \in 1..Len(CallCandidates) :
                            CallCandidates[i].filePath = f}) >= 3
          /\ f \in AnchorFiles(CallCandidates)
          /\ FileBoost(result.chunks, f) = MAX_PROXIMITY_BOOST_PER_FILE

\* C20: a retrieval that returns at least one chunk returns a chunk with
\* proximityBoost > 0 whose file carries a total boost of at most 0.16
C20_SomeChunkBoosted ==
    (rpc = "returned" /\ Len(result.chunks) >= 1) =>
        \E i \in 1..Len(result.chunks) :
            /\ result.chunks[i].proximityBoost > 0
            /\ FileBoost(result.chunks, result.chunks[i].filePath)
                  <= MAX_PROXIMITY_BOOST_PER_FILE

\* a result that holds boosted and unboosted chunks side by side
C20_Witness ==
    /\ rpc = "returned"
    /\ \E i \in 1..Len(result.chunks) : result.chunks[i].proximityBoost > 0
    /\ \E i \in 1..Len(result.chunks) : result.chunks[i].proximityBoost = 0

\* ------------------------------------------------ claims on the read path
\* C11: when the space of the stored vectors differs from the space the
\* query is embedded in, retrieve fails and returns no chunks
C11_RefusesMixedSpaces ==
    indexModel # embedQuerySpace(apiKey) => rpc # "returned"

\* -------------------------------------------------- claims on the pipeline
StageIndex(name) == CHOOSE k \in 1..Len(StageOrder) : StageOrder[k] = name

IsStageDone(e) == e.status = "done"
IsToken(e) == e.event = "token"
IsError(e) == e.event = "error"
IsTerminal(e) == IsError(e) \/ (e.event = "stage:generation" /\ e.status = "done")

LastEvent == events[Len(events)]

TokenTexts(es) ==
    LET toks == SelectSeq(es, IsToken)
    IN [i \in 1..Len(toks) |-> toks[i].data[1]]

\* C1: a stage reports done only after every earlier stage has reported done
C1_StagesDoneInOrder ==
    \A i \in 1..Len(events) :
        IsStageDone(events[i]) =>
            \A k \in 1..(StageIndex(events[i].event) - 1) :
                \E j \in 1..(i - 1) :
                    events[j].event = StageOrder[k] /\ IsStageDone(events[j])

\* a run through all five stages that streamed an answer
C1_Witness ==
    /\ pc = "closed"
    /\ Len(fullAnswer) >= 1
    /\ LastEvent = Ev("stage:generation", "done", fullAnswer)

\* C2: a validated run ends with exactly one terminal event (the final
\* stage:generation done or one error) and nothing is emitted after it
C2_OneTerminalEvent ==
    LET T == {i \in 1..Len(events) : IsTerminal(events[i])}
    IN /\ Cardinality(T) <= 1
       /\ T # {} => (T = {Len(events)} /\ pc = "closed")
       /\ pc = "closed" => T # {}

\* a run that failed after the LLM stream had been opened and read
C2_Witness ==
    /\ pc = "closed"
    /\ pos >= 1
    /\ IsError(LastEvent)

\* C3: a run that ends with an error event has delivered no token event
C3_NoTokenBeforeError ==
    (pc = "closed" /\ IsError(LastEvent)) =>
        \A i \in 1..Len(events) : ~IsToken(events[i])

\* C4: once the caller has aborted during generation, the server reads no
\* more of the LLM stream and emits no further token or stage event
C4_AbortStopsGeneration ==
    [][(aborted /\ pc = "reading") =>
          /\ pos' = pos
          /\ \A i \in (Len(events) + 1)..Len(events') : IsError(events'[i])]_vars

\* C5: on a successful run the token events carry exactly the fragments of
\* the LLM response body, in order
C5_EveryFragmentForwarded ==
    (pc = "closed" /\ ~IsError(LastEvent)) =>
        TokenTexts(events) = FragsOf(upstream)

\* C6: no token event precedes the stage:ranking done event
C6_RankingBeforeTokens ==
    \A i \in 1..Len(events) :
        IsToken(events[i]) =>
            \E j \in 1..(i - 1) :
                events[j].event = "stage:ranking" /\ IsStageDone(events[j])

\* a token has been emitted while the stream is still being read
C6_Witness ==
    /\ pc = "reading"
    /\ \E i \in 1..Len(events) : IsToken(events[i])

\* the candidates the pipeline's vectorSearch yields for this request
PipelineCandidates ==
    vectorSearch(store, Coalesce(body.topK, PIPELINE_DEFAULT_TOP_K) * PIPELINE_MULTIPLIER,
                 PIPELINE_MIN_SCORE)

RetrievalDone == Ev("stage:retrieval", "done", <<>>)

\* C18: when vectorSearch returns no candidate, the run emits ranking done
\* (empty), context done and generation done with the canned answer, no
\* token and no error, makes no LLM call and closes the stream
C18_ZeroCandidateRun ==
    ((\E i \in 1..Len(events) : events[i] = RetrievalDone)
       /\ PipelineCandidates = <<>>) =>
        /\ pc = "closed"
        /\ llmCalls = 0
        /\ events = <<Ev("stage:embedding", "active", <<>>),
                      Ev("stage:embedding", "done", <<>>),
                      Ev("stage:retrieval", "active", <<>>),
                      RetrievalDone,
                      Ev("stage:ranking", "done", <<>>),
                      Ev("stage:context", "done", <<>>),
                      Ev("stage:generation", "done", CANNED_ANSWER)>>

\* a closed zero-candidate run over a table whose rows are all below minScore
C18_Witness ==
    /\ pc = "closed"
    /\ Len(store) >= 1
    /\ PipelineCandidates = <<>>
    /\ \E i \in 1..Len(events) : events[i] = RetrievalDone

\* ------------------------------------------------- claims on embedChunks
BatchError == embedError \in {"http", "count"}

\* requests sent for the batch the last request carries
Attempts ==
    Cardinality({k \in 1..Len(requests) : requests[k] = requests[Len(requests)]})

\* C14: the result of embedChunks has one entry per input chunk, in input
\* order, each holding the vector the service computed for that chunk
C14_OrderAndCount ==
    embedPc = "returned" =>
        /\ Len(embedResult.embedded) = Len(chunks)
        /\ \A i \in 1..Len(chunks) :
             /\ embedResult.embedded[i].chunk = chunks[i]
             /\ embedResult.embedded[i].embedding.of = buildEmbedText(chunks[i])

\* a remote run that needed three batches
C14_Witness ==
    /\ embedPc = "returned"
    /\ apiKey
    /\ Len(chunks) > 2 * GEMINI_BATCH_SIZE
    /\ Len(requests) = 3

\* C15: once a batch has failed, embedChunks has rejected, has resolved with
\* no EmbeddingResult, and the failed batch is the last one sent
C15_FailedBatchFailsRun ==
    BatchError =>
        /\ embedPc = "rejected"
        /\ embedResult = NoEmbedding
        /\ Len(requests) = (batchStart \div GEMINI_BATCH_SIZE) + 1

\* the second batch failed after the first succeeded, with a third to come
C15_Witness ==
    /\ BatchError
    /\ embedPc = "rejected"
    /\ Len(embedded) = GEMINI_BATCH_SIZE
    /\ batchStart = GEMINI_BATCH_SIZE
    /\ batchStart + GEMINI_BATCH_SIZE < Len(chunks)

\* C16: embedChunks rejects on a failure status only after the failed batch
\* was sent more than once
C16_FailedBatchIsRetried ==
    (embedPc = "rejected" /\ embedError = "http") => Attempts >= 2

\* C17: every vector embedChunks returns has 768 components
C17_EveryVector768 ==
    embedPc = "returned" =>
        \A i \in 1..Len(embedResult.embedded) :
            embedResult.embedded[i].embedding.dim = GEMINI_EMBEDDING_DIM

\* ------------------------------------------ claims on writeToVectorStore
\* the k-th returned call repeats a successful write: same defined
\* commitHash, same model, the call before it wrote and left the index ready
RepeatsWrite(k) ==
    /\ writes[k - 1].ok
    /\ writes[k - 1].strategy \in {"upsert", "full-reindex"}
    /\ writes[k - 1].indexAfter.status = "ready"
    /\ writes[k].commitHash # Undefined
    /\ writes[k].commitHash = writes[k - 1].commitHash
    /\ writes[k].model = writes[k - 1].model

\* C12: a call that repeats the successful call before it returns skipped
\* and leaves the rows and the index record as they were
C12_CommitHashDedup ==
    \A k \in 2..Len(writes) :
        RepeatsWrite(k) =>
            /\ writes[k].strategy = "skipped"
            /\ writes[k].rowsAfter = writes[k].rowsBefore
            /\ writes[k].indexAfter = writes[k].indexBefore
            /\ writes[k].rowsAfter = writes[k - 1].rowsAfter

\* a full-reindex followed by the same call again
C12_Witness ==
    \E k \in 2..Len(writes) :
        /\ RepeatsWrite(k)
        /\ writes[k - 1].strategy = "full-reindex"
        /\ writes[k].strategy = "skipped"

\* ------------------------------------------------ claims on the job runner
AtMostOneActive ==
    \A r \in Repos : Cardinality({j \in ActiveJobs : jobs[j].repo = r}) <= 1

\* an enqueue for a repository under indexing creates no job and returns the
\* id of the repository's unfinished job
EnqueueIdempotent ==
    (enqueues' # enqueues /\ repoStatus[enqueued'.repo] = "indexing") =>
        /\ jobs' = jobs
        /\ enqueued'.jobId \in 1..Len(jobs)
        /\ jobs[enqueued'.jobId].repo = enqueued'.repo
        /\ Unfinished(enqueued'.jobId)

InAccepted(file) ==
    \E j \in 1..Len(filterResult.accepted) : filterResult.accepted[j] = file

InRejected(file) ==
    \E j \in 1..Len(filterResult.rejected) :
        filterResult.rejected[j].path = file.path

\* C19: the accepted and the rejected list together hold every input file
\* exactly once, and a file under an ignored segment or of more than 500 KiB
\* is in rejected
C19_FilterPartitions ==
    filterPc = "returned" =>
        /\ Len(filterResult.accepted) + Len(filterResult.rejected) = Len(files)
        /\ \A i \in 1..Len(files) :
             /\ InAccepted(files[i]) # InRejected(files[i])
             /\ ((\E k \in 1..Len(files[i].path.dirs) :
                      files[i].path.dirs[k] \in {"node_modules", "dist"})
                  \/ files[i].sizeBytes > 500 * 1024)
                => InRejected(files[i])

\* a file of exactly 500 KiB accepted next to a rejected empty file
C19_Witness ==
    /\ filterPc = "returned"
    /\ \E j \in 1..Len(filterResult.accepted) :
         filterResult.accepted[j].sizeBytes = MAX_FILE_SIZE
    /\ \E j \in 1..Len(filterResult.rejected) :
         filterResult.rejected[j].reason = "empty"

\* --------------------------------- claims on rerankByFileProximity calls
AnchorCount == Min(MAX_ANCHORS, Len(rrCandidates))

\* S holds AnchorCount candidates and none outside S scores higher
IsTopScored(S) ==
    /\ Cardinality(S) = AnchorCount
    /\ \A i \in S : \A j \in (1..Len(rrCandidates)) \ S :
         rrCandidates[i].vectorScore >= rrCandidates[j].vectorScore

FilesOf(S) == {rrCandidates[i].filePath : i \in S}

AnchorsAreTopScored ==
    \E S \in SUBSET (1..Len(rrCandidates)) :
        IsTopScored(S) /\ rrAnchors = FilesOf(S)

C22_TieBreak ==
    rrPc = "returned" =>
        \A i, j \in 1..Len(rrReturned) :
            (i < j /\ rrReturned[i].score = rrReturned[j].score) =>
                /\ rrReturned[i].vectorScore >= rrReturned[j].vectorScore
                /\ rrReturned[i].vectorScore = rrReturned[j].vectorScore
                     => rrReturned[i].id < rrReturned[j].id

\* two returned chunks tie on score with different vectorScore, and two tie
\* on both
C22_Witness ==
    /\ rrPc = "returned"
    /\ \E i, j \in 1..Len(rrReturned) :
         /\ i < j
         /\ rrReturned[i].score = rrReturned[j].score
         /\ rrReturned[i].vectorScore > rrReturned[j].vectorScore
    /\ \E i, j \in 1..Len(rrReturned) :
         /\ i < j
         /\ rrReturned[i].score = rrReturned[j].score
         /\ rrReturned[i].vectorScore = rrReturned[j].vectorScore

BoostRule(c) ==
    /\ c.filePath \notin rrAnchors =>
         (c.proximityBoost = 0 /\ c.score = c.vectorScore)
    /\ c.proximityBoost > 0 => c.proximityBoost = 8
    /\ c.proximityBoost >= 0
    /\ c.score = c.vectorScore + c.proximityBoost

\* C23: a candidate of a file outside the anchor set gets no boost and keeps
\* its vectorScore as score; a boosted candidate gets exactly 0.08; score is
\* vectorScore + proximityBoost and the boost is never negative
C23_BoostOnlyInAnchorFiles ==
    rrPc = "returned" =>
        /\ \A i \in 1..Len(rrScored) : BoostRule(rrScored[i])
        /\ \A i \in 1..Len(rrReturned) : BoostRule(rrReturned[i])

\* a returned chunk outside the anchor files next to a boosted one and one
\* whose file had used up its cap
C23_Witness ==
    /\ rrPc = "returned"
    /\ \E i \in 1..Len(rrReturned) : rrReturned[i].filePath \notin rrAnchors
    /\ \E i \in 1..Len(rrReturned) : rrReturned[i].proximityBoost > 0
    /\ \E i \in 1..Len(rrReturned) :
         /\ rrReturned[i].filePath \in rrAnchors
         /\ rrReturned[i].proximityBoost = 0

\* C26: the score of every returned chunk lies in 0..1
C26_ScoreInUnitRange ==
    rrPc = "returned" =>
        \A i \in 1..Len(rrReturned) :
            rrReturned[i].score >= 0 /\ rrReturned[i].score <= 100

\* the candidate a returned chunk was built from
BuiltFrom(r, c) ==
    /\ r.id = c.id
    /\ r.filePath = c.filePath
    /\ r.language = c.language
    /\ r.content = c.content
    /\ r.startLine = c.startLine
    /\ r.endLine = c.endLine
    /\ r.symbolName = c.symbolName
    /\ r.vectorScore = c.vectorScore

\* C29: the call returns min(topK, n) chunks, each built from a candidate of
\* its own with the candidate's fields unchanged, and leaves the candidate
\* list as it was given
C29_ReturnsTopKOfInput ==
    rrPc = "returned" =>
        /\ Len(rrReturned) = Min(rrTopK, Len(rrCandidates))
        /\ \A i \in 1..Len(rrReturned) :
             \E j \in 1..Len(rrCandidates) : BuiltFrom(rrReturned[i], rrCandidates[j])
        /\ \A i, j \in 1..Len(rrReturned) :
             rrReturned[i].id = rrReturned[j].id => i = j
        /\ rrCandidates = WithIds(rrCandidates)

\* a call that cut the list and one reordered chunk
C29_Witness ==
    /\ rrPc = "returned"
    /\ rrTopK >= 2
    /\ Len(rrReturned) = rrTopK
    /\ Len(rrCandidates) > rrTopK
    /\ rrReturned[1].id > rrReturned[2].id

CeilDiv(n, d) == (n + d - 1) \div d

\* the texts the k-th call has to carry: chunks 100(k-1)+1 .. min(100k, n)
TextsOfCall(k) ==
    LET from == (k - 1) * GEMINI_BATCH_SIZE
        m == Min(GEMINI_BATCH_SIZE, Len(chunks) - from)
    IN  [j \in 1..m |-> buildEmbedText(chunks[from + j])]

RECURSIVE AllTexts(_)
AllTexts(reqs) ==
    IF reqs = <<>> THEN <<>>
    ELSE AllTexts(SubSeq(reqs, 1, Len(reqs) - 1)) \o reqs[Len(reqs)].texts

BatchCallsSoFar ==
    (apiKey /\ Len(chunks) >= 1) =>
        /\ \A k \in 1..Len(requests) :
             /\ requests[k].texts = TextsOfCall(k)
             /\ Len(requests[k].texts) \in 1..GEMINI_BATCH_SIZE
        /\ Len(requests) >= 1 => pauses = Len(requests) - 1
        /\ embedPc = "returned" =>
             /\ Len(requests) = CeilDiv(Len(chunks), GEMINI_BATCH_SIZE)
             /\ AllTexts(requests) =
                  [i \in 1..Len(chunks) |-> buildEmbedText(chunks[i])]

\* a call is sent only while no call is in flight, and every call but the
\* first right after a pause
CallsAreSequential ==
    requests' # requests =>
        /\ embedPc # "fetch"
        /\ embedPc' = "fetch"
        /\ Len(requests') = Len(requests) + 1
        /\ Len(requests) >= 1 => (embedPc = "sleep" /\ pauses' = pauses + 1)

\* a pause ends in the next call
PauseLeadsToCall == pauses' # pauses => requests' # requests

C25_TaskTypesNotMixed ==
    /\ \A k \in 1..Len(requests) : requests[k].taskType = "RETRIEVAL_DOCUMENT"
    /\ \A k \in 1..Len(queryRequests) :
         queryRequests[k].taskType = "RETRIEVAL_QUERY"

\* two batches were sent for the index, and both retrieve and the pipeline
\* embedded their query
C25_Witness ==
    /\ Len(requests) = 2
    /\ Len(queryRequests) = 2
    /\ rpc # "call"
    /\ pc = "retrieval"

\* the texts of the token events of a run, in emission order
TokenTextsOf(evs) ==
    LET toks == SelectSeq(evs, IsToken)
    IN  [i \in 1..Len(toks) |-> toks[i].data[1]]

IsGenerationDone(e) == e.event = "stage:generation" /\ e.status = "done"

\* C28 as stated, for every run that ends with `stage:generation` done
C28_AnswerIsTokensOnEveryRun ==
    \A k \in 1..Len(events) :
        IsGenerationDone(events[k]) => events[k].data = TokenTextsOf(events)

\* C28: on every run that called the LLM the answer of the final
\* `stage:generation` done event is the concatenation, in emission order, of
\* the texts of the run's token events; a zero-candidate run carries the
\* fixed answer and has no token event
C28_AnswerIsTokenConcatenation ==
    \A k \in 1..Len(events) :
        IsGenerationDone(events[k]) =>
            /\ k = Len(events)
            /\ IF llmCalls > 0
               THEN events[k].data = TokenTextsOf(events)
               ELSE events[k].data = CANNED_ANSWER /\ TokenTextsOf(events) = <<>>

\* a run that ended with an answer of two streamed texts
C28_Witness ==
    /\ pc = "closed"
    /\ llmCalls > 0
    /\ Len(events) > 0
    /\ IsGenerationDone(events[Len(events)])
    /\ Len(TokenTextsOf(events)) = 2
    /\ events[Len(events)].data = TokenTextsOf(events)

\* ------------------------------------------- claims on the browser client
RECURSIVE AllJson(_)
AllJson(evs) == evs = <<>> \/ (Head(evs).data.json /\ AllJson(Tail(evs)))

\* the call has read and processed the whole stream of its response
ReadToTheEnd(r) ==
    clientPc[r] = "reading" /\ netPos[r] = Len(Wire(emitted[r]))

\* C27: when the read loop has read a response to its end, handleEvent has
\* been called once for every event of the response, in emission order,
\* however the stream was split into reads
C27_EveryEventHandledOnce ==
    \A r \in 1..runs :
        (ReadToTheEnd(r) /\ AllJson(emitted[r])) => handled[r] = emitted[r]

AllReturned == \A r \in 1..runs : Returned(r)

\* the step in which a call returns leaves streaming false
ReturnClearsStreaming ==
    \A r \in 1..runs : (~Returned(r) /\ Returned(r)') => ~streaming'

\* streaming becomes true only by a new call of runPipeline
OnlyARunSetsStreaming == (~streaming /\ streaming') => runs' = runs + 1

\* C30: every started run returns once its response has ended, whatever way
\* it ended, leaving streaming false; streaming is false whenever no run is
\* under way, and only a new run sets it again
C30_StreamingEndsFalse ==
    /\ \A r \in 1..MaxRuns : (r <= runs) ~> (r <= runs /\ Returned(r) /\ ~streaming)
    /\ [](AllReturned => ~streaming)
    /\ [][ReturnClearsStreaming /\ OnlyARunSetsStreaming]_vars

\* a re-run after a run that had returned read its response to the end
C30_Witness ==
    /\ runs = 2
    /\ clientPc = <<"returned", "ended">>
    /\ ~streaming
    /\ clientError = Undefined

====
